---------------------------- MODULE Spec2Model ----------------------------
(***************************************************************************)
(* The TAU Commander compiler knowledgebase                                *)
(* (packages/tau/cf/compiler/__init__.py): the role registry, the family   *)
(* registry with its per-family command and role maps, the global index of *)
(* CompilerInfo instances, and the lookups over them.                      *)
(*                                                                         *)
(* Strings that take part in substring matching (commands and paths) are   *)
(* sequences of one-character strings; names, keywords and flags, which    *)
(* are only compared for equality, are TLA+ strings.                       *)
(***************************************************************************)
EXTENDS Integers, Sequences, FiniteSets, TLC

VARIABLES
    script,         \* which registration tables run: "seed" (lines 287-318) or "free"
    pc,             \* number of module-level statements executed so far
    roles,          \* CompilerRole.__instances__   : keyword -> role
    families,       \* CompilerFamily.__instances__ : name -> family
    index,          \* CompilerInfo.__instances__   : set of CompilerInfo
    created,        \* number of CompilerInfo objects constructed so far
    hostPreferred,  \* the family host.preferred_compilers() returns (its name)
    heap,           \* the flag list objects: reference -> contents
    mutations,      \* number of changes made to flag lists so far
    result          \* the last operation: its name, arguments and outcome

vars == <<script, pc, roles, families, index, created, hostPreferred, heap,
          mutations, result>>

\* The registry proper: what add may change and a lookup may not.
registry == <<roles, families, index, created>>

----------------------------------------------------------------------------
(* Bounds of the model *)

\* Longest command list of one add call in the "free" tables.
MaxCmds == 2

\* Most changes made to flag lists in one run.
MaxMutations == 2

----------------------------------------------------------------------------
(* Command strings of the seed tables, as character sequences *)

s_cc       == <<"c","c">>
s_cxx      == <<"c","x","x">>
s_cpp      == <<"c","+","+">>
s_CC       == <<"C","C">>
s_ftn      == <<"f","t","n">>
s_f90      == <<"f","9","0">>
s_f77      == <<"f","7","7">>
s_upc      == <<"u","p","c">>
s_gcc      == <<"g","c","c">>
s_gpp      == <<"g","+","+">>
s_gfortran == <<"g","f","o","r","t","r","a","n">>
s_gupc     == <<"g","u","p","c">>
s_icc      == <<"i","c","c">>
s_icpc     == <<"i","c","p","c">>
s_ifort    == <<"i","f","o","r","t">>
s_pgcc     == <<"p","g","c","c">>
s_pgcpp    == <<"p","g","c","+","+">>
s_pgcxx    == <<"p","g","c","x","x">>
s_pgCC     == <<"p","g","C","C">>
s_pgf90    == <<"p","g","f","9","0">>
s_pgf77    == <<"p","g","f","7","7">>
s_xlc      == <<"x","l","c">>
s_xlcpp    == <<"x","l","c","+","+">>
s_xlC      == <<"x","l","C">>
s_xlf      == <<"x","l","f">>

\* Inputs of find that are not themselves registered commands.
p_gcc47        == <<"g","c","c","-","4",".","7","-","x","8","6","_","6","4">>
p_doesNotExist == <<"d","o","e","s","-","n","o","t","-","e","x","i","s","t">>
p_usrBinIcc    == <<"/","u","s","r","/","b","i","n","/","i","c","c">>
p_mpicc        == <<"m","p","i","c","c">>
p_pgf90dir     == <<"p","g","f","9","0","/">>
p_relGcc       == <<".","/","g","c","c">>
p_xlf90        == <<"x","l","f","9","0">>
p_gc           == <<"g","c">>

----------------------------------------------------------------------------
(* String helpers: Python's `in` on strings and os.path.basename *)

\* a in b  (a is a contiguous substring of b; the empty string is in every string)
IsSubstr(a, b) ==
    \E i \in 0..(Len(b) - Len(a)) : SubSeq(b, i + 1, i + Len(a)) = a

\* b.startswith(a)
IsSubstr_PrefixOnly(a, b) ==
    Len(a) <= Len(b) /\ SubSeq(b, 1, Len(a)) = a

\* os.path.basename(p): what follows the last "/" of p
basename(p) ==
    LET slashes == {i \in 1..Len(p) : p[i] = "/"}
        last    == IF slashes = {} THEN 0
                   ELSE CHOOSE i \in slashes : \A j \in slashes : j <= i
    IN  SubSeq(p, last + 1, Len(p))

RECURSIVE IterOrders(_)
\* Every order in which the elements of the finite set S can be iterated.
IterOrders(S) ==
    IF S = {} THEN {<<>>}
    ELSE UNION {{<<x>> \o ord : ord \in IterOrders(S \ {x})} : x \in S}


----------------------------------------------------------------------------
(* Roles: CompilerRole and the module-level role definitions *)

\* CompilerRole.__init__(keyword, language, required=False)
CompilerRole(keyword, language, required) ==
    [keyword |-> keyword, language |-> language, required |-> required]

CC_ROLE  == CompilerRole("CC", "C", TRUE)
CXX_ROLE == CompilerRole("CXX", "C++", TRUE)
FC_ROLE  == CompilerRole("FC", "Fortran", TRUE)
UPC_ROLE == CompilerRole("UPC", "Universal Parallel C", FALSE)

\* KeyedRecord: constructing an instance files it under its key attribute.
KeyedRecord_register(instances, key, instance) ==
    (key :> instance) @@ instances

\* KeyedRecord.all(): the instances, in the iteration orders of the store.
KeyedRecord_all(instances) ==
    {[i \in DOMAIN ord |-> instances[ord[i]]] : ord \in IterOrders(DOMAIN instances)}

\* mutant: the `if role.required` filter is dropped
tau_required_NoFilter(ord) == ord

\* CompilerRole.tau_required(), over one iteration order of the roles
tau_required(ord) ==
    SelectSeq(ord, LAMBDA role : role.required)

----------------------------------------------------------------------------
(* CompilerInfo and the global index *)

\* CompilerInfo.__init__(command, family, role). Within a family a command is
\* registered at most once and family names are unique, so the object is
\* identified by its command and family.
CompilerInfo(command, family, role) ==
    [command     |-> command,
     family      |-> family.name,
     role        |-> role.keyword,
     short_descr |-> <<family.name, role.language, "compiler">>]

\* TrackedInstance: constructing an instance adds it to the class's instances.
TrackedInstance_register(instances, instance) ==
    instances \cup {instance}

----------------------------------------------------------------------------
(* CompilerFamily *)

DefaultVersionFlags     == <<"--version">>
DefaultIncludePathFlags == <<"-I">>
DefaultLibraryPathFlags == <<"-L">>
DefaultLinkLibraryFlags == <<"-l">>
DefaultShowWrapperFlags == <<>>

\* The five flag attributes of a family, which are also the names of the
\* constructor's list parameters.
FlagFields ==
    {"version_flags", "include_path_flags", "library_path_flags",
     "link_library_flags", "show_wrapper_flags"}

\* Lists are objects: a family's flag attribute holds a reference to a list,
\* and two attributes holding the same reference share one list. A reference
\* names the place the list was made for.
\* The list that is the default value of parameter field (made once, when
\* the def statement runs).
DefaultRef(field) == [owner |-> "<defaults>", field |-> field]
\* The list a call of the constructor passes for a parameter it gives.
ArgumentRef(name, field) == [owner |-> name, field |-> "<argument>"]
\* The list object made for attribute field of family name.
FlagRef(name, field) == [owner |-> name, field |-> field]

\* The contents of the default lists.
DefaultFlags ==
    [field \in FlagFields |->
        CASE field = "version_flags"      -> DefaultVersionFlags
          [] field = "include_path_flags" -> DefaultIncludePathFlags
          [] field = "library_path_flags" -> DefaultLibraryPathFlags
          [] field = "link_library_flags" -> DefaultLinkLibraryFlags
          [] field = "show_wrapper_flags" -> DefaultShowWrapperFlags]

\* mutant: the argument itself is stored, not a copy of it
list_Alias(new, x) == x

\* list(x): a new list object, new, with the elements of x; the reference
\* to it is what the attribute holds
list(new, x) == new

\* CompilerFamily.__init__; the arguments are references to lists
CompilerFamily(name, version_flags, include_path_flags, library_path_flags, link_library_flags, show_wrapper_flags) ==
    [info_by_command    |-> <<>>,
     info_by_role       |-> <<>>,
     name               |-> name,
     version_flags      |-> list(FlagRef(name, "version_flags"), version_flags),
     include_path_flags |-> list(FlagRef(name, "include_path_flags"), include_path_flags),
     library_path_flags |-> list(FlagRef(name, "library_path_flags"), library_path_flags),
     link_library_flags |-> list(FlagRef(name, "link_library_flags"), link_library_flags),
     show_wrapper_flags |-> list(FlagRef(name, "show_wrapper_flags"), show_wrapper_flags)]

\* The list objects after the constructor has run: every list the new
\* family holds that did not exist before is new, with the elements its
\* argument had.
heap_after_init(h, family, args) ==
    LET made == {field \in FlagFields : family[field] \notin DOMAIN h}
    IN  [ref \in DOMAIN h \cup {family[field] : field \in made} |->
            IF ref \in DOMAIN h THEN h[ref]
            ELSE h[args[CHOOSE field \in made : family[field] = ref]]]

\* The contents of the flag list family fam holds under field, in heap h.
flags(h, fam, field) == h[fam[field]]

\* mutant: a new entry is put in front of the role's list
setdefault_append_Prepend(by_role, keyword, info) ==
    IF keyword \in DOMAIN by_role
    THEN [by_role EXCEPT ![keyword] = <<info>> \o @]
    ELSE (keyword :> <<info>>) @@ by_role

\* mutant: the role's list is replaced by a list of the new entry alone
setdefault_append_Overwrite(by_role, keyword, info) ==
    (keyword :> <<info>>) @@ by_role

\* self._info_by_role.setdefault(role.keyword, []).append(info)
setdefault_append(by_role, keyword, info) ==
    IF keyword \in DOMAIN by_role
    THEN [by_role EXCEPT ![keyword] = Append(@, info)]
    ELSE (keyword :> <<info>>) @@ by_role

\* mutant: the command is not stored in the family's command map
add_command_NoCommandMap(st, role, command) ==
    IF command \in DOMAIN st.family.info_by_command
    THEN [st EXCEPT !.raised = "InternalError"]
    ELSE LET info == CompilerInfo(command, st.family, role)
         IN  [family |-> [st.family EXCEPT
                            !.info_by_role = setdefault_append(@, role.keyword, info)],
              index  |-> TrackedInstance_register(st.index, info),
              created |-> st.created + 1,
              raised |-> "none"]

\* mutant: no test for a command that is already a member
add_command_NoDuplicateTest(st, role, command) ==
    LET info == CompilerInfo(command, st.family, role)
    IN  [family |-> [st.family EXCEPT
                       !.info_by_command = (command :> info) @@ @,
                       !.info_by_role = setdefault_append(@, role.keyword, info)],
         index  |-> TrackedInstance_register(st.index, info),
         created |-> st.created + 1,
         raised |-> "none"]

\* One pass of the loop body of add: st is the family, the global index, the
\* number of CompilerInfo objects constructed and the exception raised so far.
add_command(st, role, command) ==
    IF command \in DOMAIN st.family.info_by_command
    THEN [st EXCEPT !.raised = "InternalError"]
    ELSE LET info == CompilerInfo(command, st.family, role)
         IN  [family |-> [st.family EXCEPT
                            !.info_by_command = (command :> info) @@ @,
                            !.info_by_role = setdefault_append(@, role.keyword, info)],
              index  |-> TrackedInstance_register(st.index, info),
              created |-> st.created + 1,
              raised |-> "none"]

RECURSIVE add_loop(_, _, _)
\* for command in commands: ...   (the loop ends at the first exception)
add_loop(st, role, commands) ==
    IF commands = <<>> \/ st.raised # "none"
    THEN st
    ELSE add_loop(add_command(st, role, Head(commands)), role, Tail(commands))

\* mutant: the role's list is created before the loop over the commands
add_EagerRoleList(family, role, commands, instances, n) ==
    add_loop([family |-> [family EXCEPT
                            !.info_by_role =
                                IF role.keyword \in DOMAIN @ THEN @
                                ELSE (role.keyword :> <<>>) @@ @],
              index |-> instances, created |-> n, raised |-> "none"],
             role, commands)

\* CompilerFamily.add(self, role, *commands)
add(family, role, commands, instances, n) ==
    add_loop([family |-> family, index |-> instances, created |-> n, raised |-> "none"],
             role, commands)

\* Keys of __contains__ and members: a string or a CompilerRole instance.
StrKey(s)     == [isString |-> TRUE, str |-> s]
RoleKey(role) == [isString |-> FALSE, role |-> role]

\* CompilerFamily.__contains__(self, item)
contains(family, item) ==
    IF item.isString
    THEN item.str \in DOMAIN family.info_by_command
    ELSE item.role.keyword \in DOMAIN family.info_by_role

\* mutant: dict.get in place of dict[...], None for a missing key
members_Get(family, key) ==
    IF key.isString
    THEN IF key.str \in DOMAIN family.info_by_command
         THEN [status |-> "ok", value |-> family.info_by_command[key.str]]
         ELSE [status |-> "ok", value |-> "None"]
    ELSE IF key.role.keyword \in DOMAIN family.info_by_role
         THEN [status |-> "ok", value |-> family.info_by_role[key.role.keyword]]
         ELSE [status |-> "ok", value |-> "None"]

\* CompilerFamily.members(self, key)
members(family, key) ==
    IF key.isString
    THEN IF key.str \in DOMAIN family.info_by_command
         THEN [status |-> "ok", value |-> family.info_by_command[key.str]]
         ELSE [status |-> "KeyError", value |-> "KeyError"]
    ELSE IF key.role.keyword \in DOMAIN family.info_by_role
         THEN [status |-> "ok", value |-> family.info_by_role[key.role.keyword]]
         ELSE [status |-> "KeyError", value |-> "KeyError"]

\* CompilerFamily.preferred(): host.preferred_compilers(), fixed for the host
preferred(host) == host

\* mutant: the preferred family is not skipped in the loop
all_NoSkip(instances, ord, host) ==
    <<preferred(host)>> \o ord

\* CompilerFamily.all(), with ord the order of __instances__.itervalues().
\* Family objects are referred to by their names, here and in what is
\* yielded.
all(instances, ord, host) ==
    <<preferred(host)>>
        \o SelectSeq(ord, LAMBDA instance : instances[instance].name # preferred(host))

\* The characters of the family names and their code points (ASCII), by which
\* Python orders strings.
NameChars ==
    [name \in {"System", "GNU", "Intel", "PGI", "IBM", "Cray"} |->
        CASE name = "System" -> <<"S","y","s","t","e","m">>
          [] name = "GNU"    -> <<"G","N","U">>
          [] name = "Intel"  -> <<"I","n","t","e","l">>
          [] name = "PGI"    -> <<"P","G","I">>
          [] name = "IBM"    -> <<"I","B","M">>
          [] name = "Cray"   -> <<"C","r","a","y">>]

ord_char(c) ==
    CASE c = "B" -> 66  [] c = "C" -> 67  [] c = "G" -> 71  [] c = "I" -> 73
      [] c = "M" -> 77  [] c = "N" -> 78  [] c = "P" -> 80  [] c = "S" -> 83
      [] c = "U" -> 85  [] c = "a" -> 97  [] c = "e" -> 101 [] c = "l" -> 108
      [] c = "m" -> 109 [] c = "n" -> 110 [] c = "r" -> 114 [] c = "s" -> 115
      [] c = "t" -> 116 [] c = "y" -> 121

RECURSIVE chars_less(_, _)
\* a < b for strings: the first differing character decides, a proper prefix
\* is smaller
chars_less(a, b) ==
    IF b = <<>> THEN FALSE
    ELSE IF a = <<>> THEN TRUE
    ELSE IF ord_char(Head(a)) # ord_char(Head(b))
         THEN ord_char(Head(a)) < ord_char(Head(b))
         ELSE chars_less(Tail(a), Tail(b))

str_less(a, b) == chars_less(NameChars[a], NameChars[b])

RECURSIVE insert_sorted(_, _)
\* x placed in the ascending list xs, after the elements not greater than it
insert_sorted(xs, x) ==
    IF xs = <<>> THEN <<x>>
    ELSE IF str_less(x, Head(xs)) THEN <<x>> \o xs
    ELSE <<Head(xs)>> \o insert_sorted(Tail(xs), x)

RECURSIVE sorted(_)
\* sorted(xs): the elements of xs in ascending order (stable)
sorted(xs) ==
    IF xs = <<>> THEN <<>>
    ELSE insert_sorted(sorted(SubSeq(xs, 1, Len(xs) - 1)), xs[Len(xs)])

\* str(inst) for a family: KeyedRecord instances print as their key
str_family(instances, inst) == instances[inst].name

\* mutant: the list is returned as all() yields it
family_names_Unsorted(instances, yielded) ==
    [i \in DOMAIN yielded |-> str_family(instances, yielded[i])]

\* CompilerFamily.family_names(), with yielded what cls.all() yields
family_names(instances, yielded) ==
    sorted([i \in DOMAIN yielded |-> str_family(instances, yielded[i])])

----------------------------------------------------------------------------
(* CompilerInfo.find *)

RECURSIVE exact_match(_, _)
\* mutant: `in` in place of `==` in the first loop
exact_match_Substring(ord, command) ==
    LET hits == SelectSeq(ord, LAMBDA instance : IsSubstr(instance.command, command))
    IN  IF hits = <<>> THEN <<>> ELSE <<Head(hits)>>

\* for instance in cls.all(): if instance.command == command: return instance
\* (<<>> when the loop ends without returning)
exact_match(ord, command) ==
    IF ord = <<>> THEN <<>>
    ELSE IF Head(ord).command = command THEN <<Head(ord)>>
    ELSE exact_match(Tail(ord), command)

\* mutant: only commands the input starts with are candidates
candidates_PrefixOnly(ord, command) ==
    SelectSeq(ord, LAMBDA inst : IsSubstr_PrefixOnly(inst.command, command))

\* [inst for inst in cls.all() if inst.command in command]
candidates(ord, command) ==
    SelectSeq(ord, LAMBDA inst : IsSubstr(inst.command, command))

RECURSIVE max_loop(_, _)
\* max(): the running best is replaced only by a strictly longer element
max_loop(best, rest) ==
    IF rest = <<>> THEN best
    ELSE IF Len(Head(rest).command) > Len(best.command)
         THEN max_loop(Head(rest), Tail(rest))
         ELSE max_loop(best, Tail(rest))

RECURSIVE min_loop(_, _)
min_loop(best, rest) ==
    IF rest = <<>> THEN best
    ELSE IF Len(Head(rest).command) < Len(best.command)
         THEN min_loop(Head(rest), Tail(rest))
         ELSE min_loop(best, Tail(rest))

\* mutant: min in place of max
max_by_len_Min(cands) == min_loop(Head(cands), Tail(cands))

\* max(candidates, key=len), with len(info) = len(info.command)
max_by_len(cands) == max_loop(Head(cands), Tail(cands))

\* CompilerInfo.find(cls, command), with ord the order of cls.all()
find(ord, path) ==
    LET command == basename(path)
        exact   == exact_match(ord, command)
        cands   == candidates(ord, command)
    IN  IF exact # <<>> THEN [status |-> "ok", value |-> exact[1]]
        ELSE IF cands = <<>> THEN [status |-> "KeyError", value |-> "KeyError"]
        ELSE [status |-> "ok", value |-> max_by_len(cands)]

\* The instances either loop of find can act on. An instance whose command is
\* not contained in the input fails both `==` and `in`, so both loops pass
\* over it wherever it stands: the iteration orders of cls.all() are
\* enumerated over the remaining instances only.
relevant(instances, path) ==
    {inst \in instances : IsSubstr(inst.command, basename(path))}

----------------------------------------------------------------------------
(* The module-level statements, lines 282-318 *)

RoleStmt(role) == [kind |-> "role", role |-> role]

\* A list parameter of a constructor call: omitted, or given as a list
\* display.
Omitted     == [given |-> FALSE]
Given(list_display) == [given |-> TRUE, value |-> list_display]

FamilyStmt(name, show_wrapper_flags) ==
    [kind |-> "family", name |-> name, show_wrapper_flags |-> show_wrapper_flags]

AddStmt(name, role, commands) ==
    [kind |-> "add", family |-> name, role |-> role, commands |-> commands]

\* CC_ROLE = CompilerRole('CC', 'C', True) ... UPC_ROLE = ...
RoleStatements ==
    <<RoleStmt(CC_ROLE), RoleStmt(CXX_ROLE), RoleStmt(FC_ROLE), RoleStmt(UPC_ROLE)>>

\* SYSTEM_COMPILERS = CompilerFamily('System') ... CRAY_COMPILERS.add(UPC_ROLE, 'upc')
SeedStatements ==
    <<FamilyStmt("System", Omitted),
      AddStmt("System", CC_ROLE,  <<s_cc>>),
      AddStmt("System", CXX_ROLE, <<s_cpp, s_cxx, s_CC>>),
      AddStmt("System", FC_ROLE,  <<s_ftn, s_f90, s_f77>>),
      AddStmt("System", UPC_ROLE, <<s_upc>>),
      FamilyStmt("GNU", Omitted),
      AddStmt("GNU", CC_ROLE,  <<s_gcc>>),
      AddStmt("GNU", CXX_ROLE, <<s_gpp>>),
      AddStmt("GNU", FC_ROLE,  <<s_gfortran>>),
      AddStmt("GNU", UPC_ROLE, <<s_gupc>>),
      FamilyStmt("Intel", Omitted),
      AddStmt("Intel", CC_ROLE,  <<s_icc>>),
      AddStmt("Intel", CXX_ROLE, <<s_icpc>>),
      AddStmt("Intel", FC_ROLE,  <<s_ifort>>),
      FamilyStmt("PGI", Omitted),
      AddStmt("PGI", CC_ROLE,  <<s_pgcc>>),
      AddStmt("PGI", CXX_ROLE, <<s_pgcpp, s_pgcxx, s_pgCC>>),
      AddStmt("PGI", FC_ROLE,  <<s_pgf90, s_pgf77>>),
      FamilyStmt("IBM", Omitted),
      AddStmt("IBM", CC_ROLE,  <<s_xlc>>),
      AddStmt("IBM", CXX_ROLE, <<s_xlcpp, s_xlC>>),
      AddStmt("IBM", FC_ROLE,  <<s_xlf>>),
      FamilyStmt("Cray", Given(<<"-craype-verbose">>)),
      AddStmt("Cray", CC_ROLE,  <<s_cc>>),
      AddStmt("Cray", CXX_ROLE, <<s_CC, s_cpp, s_cxx>>),
      AddStmt("Cray", FC_ROLE,  <<s_ftn, s_f90, s_f77>>),
      AddStmt("Cray", UPC_ROLE, <<s_upc>>)>>

SeedFamilyNames == {"System", "GNU", "Intel", "PGI", "IBM", "Cray"}

SeedCommands ==
    {s_cc, s_cxx, s_cpp, s_CC, s_ftn, s_f90, s_f77, s_upc, s_gcc, s_gpp,
     s_gfortran, s_gupc, s_icc, s_icpc, s_ifort, s_pgcc, s_pgcpp, s_pgcxx,
     s_pgCC, s_pgf90, s_pgf77, s_xlc, s_xlcpp, s_xlC, s_xlf}

\* The module's statements under each script. Under "free" the role
\* definitions are followed by any family constructions and add calls over
\* FreeNames, FreeRoles and FreeCommands instead of the seed tables.
Program(s) ==
    IF s = "seed" THEN RoleStatements \o SeedStatements ELSE RoleStatements

FreeNames    == {"GNU", "Cray"}
FreeRoles    == {CC_ROLE, UPC_ROLE}
FreeCommands == {s_cc, s_gcc}
CommandLists == UNION {[1..n -> FreeCommands] : n \in 0..MaxCmds}

\* The module has been imported: every statement of the script has run.
Loaded == pc = Len(Program(script))

\* Arguments of the queries.
FindPaths ==
    IF script = "seed"
    THEN SeedCommands \cup {p_gcc47, p_doesNotExist, p_usrBinIcc, p_mpicc,
                            p_pgf90dir, p_xlf90}
    ELSE {s_cc, s_gcc, s_icc, p_gcc47, p_relGcc, p_gc}

QueryCommands ==
    IF script = "seed"
    THEN {s_cc, s_CC, s_cpp, s_upc, s_gcc, s_icc, s_pgCC, s_xlf, p_gcc47}
    ELSE FreeCommands \cup {s_icc}

QueryKeys ==
    {StrKey(c) : c \in QueryCommands} \cup {RoleKey(roles[k]) : k \in DOMAIN roles}

----------------------------------------------------------------------------
(* The state machine *)

NoResult == [op |-> "none"]

Init ==
    /\ script \in {"seed", "free"}
    /\ pc = 0
    /\ roles = <<>>
    /\ families = <<>>
    /\ index = {}
    /\ created = 0
    /\ hostPreferred \in (IF script = "seed" THEN SeedFamilyNames ELSE FreeNames)
    /\ heap = [ref \in {DefaultRef(field) : field \in FlagFields} |-> DefaultFlags[ref.field]]
    /\ mutations = 0
    /\ result = NoResult

\* X_ROLE = CompilerRole(...)
DefineRole ==
    /\ pc < Len(Program(script))
    /\ Program(script)[pc + 1].kind = "role"
    /\ LET role == Program(script)[pc + 1].role
       IN  /\ roles' = KeyedRecord_register(roles, role.keyword, role)
           /\ result' = [op |-> "role", role |-> role]
    /\ pc' = pc + 1
    /\ UNCHANGED <<script, families, index, created, hostPreferred, heap, mutations>>

\* The constructor calls that can come next.
ConstructCalls ==
    IF script = "seed"
    THEN IF pc < Len(Program(script)) /\ Program(script)[pc + 1].kind = "family"
         THEN {Program(script)[pc + 1]}
         ELSE {}
    ELSE IF Loaded
         THEN {FamilyStmt(n, IF n = "Cray" THEN Given(<<"-craype-verbose">>) ELSE Omitted) :
                  n \in FreeNames \ DOMAIN families}
         ELSE {}

\* X_COMPILERS = CompilerFamily(name, show_wrapper_flags=...)
Construct ==
    \E call \in ConstructCalls :
        LET \* the list display of a given argument is evaluated first
            h1   == IF call.show_wrapper_flags.given
                    THEN (ArgumentRef(call.name, "show_wrapper_flags")
                              :> call.show_wrapper_flags.value) @@ heap
                    ELSE heap
            args == [field \in FlagFields |->
                        IF field = "show_wrapper_flags" /\ call.show_wrapper_flags.given
                        THEN ArgumentRef(call.name, field)
                        ELSE DefaultRef(field)]
            family == CompilerFamily(call.name,
                                     args["version_flags"],
                                     args["include_path_flags"],
                                     args["library_path_flags"],
                                     args["link_library_flags"],
                                     args["show_wrapper_flags"])
        IN  /\ families' = KeyedRecord_register(families, call.name, family)
            /\ heap' = heap_after_init(h1, family, args)
            /\ result' = [op |-> "family", name |-> call.name,
                          show_wrapper_flags |-> call.show_wrapper_flags]
            /\ pc' = IF script = "seed" THEN pc + 1 ELSE pc
            /\ UNCHANGED <<script, roles, index, created, hostPreferred, mutations>>

\* The add calls that can come next.
AddCalls ==
    IF script = "seed"
    THEN IF pc < Len(Program(script)) /\ Program(script)[pc + 1].kind = "add"
         THEN {Program(script)[pc + 1]}
         ELSE {}
    ELSE IF Loaded
         THEN {AddStmt(n, r, cs) : n \in DOMAIN families, r \in FreeRoles,
                                   cs \in CommandLists}
         ELSE {}

\* X_COMPILERS.add(role, *commands)
Add ==
    \E call \in AddCalls :
        LET st == add(families[call.family], call.role, call.commands, index, created)
        IN  /\ families' = [families EXCEPT ![call.family] = st.family]
            /\ index' = st.index
            /\ created' = st.created
            /\ result' = [op |-> "add", family |-> call.family, role |-> call.role,
                          commands |-> call.commands,
                          status |-> IF st.raised = "none" THEN "ok" ELSE st.raised]
            /\ pc' = IF script = "seed" THEN pc + 1 ELSE pc
            /\ UNCHANGED <<script, roles, hostPreferred, heap, mutations>>

\* CompilerInfo.find(path)
Find ==
    /\ Loaded
    /\ \E path \in FindPaths :
         \E r \in {find(ord, path) : ord \in IterOrders(relevant(index, path))} :
            result' = [op |-> "find", path |-> path,
                       status |-> r.status, value |-> r.value]
    /\ UNCHANGED <<script, pc, roles, families, index, created, hostPreferred, heap, mutations>>

\* item in family
Contains ==
    /\ Loaded
    /\ \E name \in DOMAIN families, item \in QueryKeys :
         result' = [op |-> "contains", family |-> name, key |-> item,
                    status |-> "ok", value |-> contains(families[name], item)]
    /\ UNCHANGED <<script, pc, roles, families, index, created, hostPreferred, heap, mutations>>

\* family.members(key)
Members ==
    /\ Loaded
    /\ \E name \in DOMAIN families, key \in QueryKeys :
         LET r == members(families[name], key)
         IN  result' = [op |-> "members", family |-> name, key |-> key,
                        status |-> r.status, value |-> r.value]
    /\ UNCHANGED <<script, pc, roles, families, index, created, hostPreferred, heap, mutations>>

\* list(CompilerFamily.all())
All ==
    /\ Loaded
    /\ hostPreferred \in DOMAIN families
    /\ \E v \in {all(families, ord, hostPreferred) : ord \in IterOrders(DOMAIN families)} :
         result' = [op |-> "all", status |-> "ok", value |-> v]
    /\ UNCHANGED <<script, pc, roles, families, index, created, hostPreferred, heap, mutations>>

\* list(CompilerRole.tau_required())
TauRequired ==
    /\ Loaded
    /\ \E v \in {tau_required(ord) : ord \in KeyedRecord_all(roles)} :
         result' = [op |-> "tau_required", status |-> "ok", value |-> v]
    /\ UNCHANGED <<script, pc, roles, families, index, created, hostPreferred, heap, mutations>>

\* CompilerFamily.family_names()
FamilyNames ==
    /\ Loaded
    /\ hostPreferred \in DOMAIN families
    /\ \E v \in {family_names(families, yielded) :
                    yielded \in {all(families, ord, hostPreferred) :
                                     ord \in IterOrders(DOMAIN families)}} :
         result' = [op |-> "family_names", status |-> "ok", value |-> v]
    /\ UNCHANGED <<script, pc, roles, families, index, created, hostPreferred, heap, mutations>>

Next ==
    \/ DefineRole
    \/ Construct
    \/ Add
    \/ Find
    \/ Contains
    \/ Members
    \/ All
    \/ TauRequired
    \/ FamilyNames

Spec == Init /\ [][Next]_vars

----------------------------------------------------------------------------
(* Changes of flag lists *)

\* What a caller can do to a list it got from a family.
FlagChanges == {"append", "remove", "replace"}
NewFlag == "-x"

\* lst.append(NewFlag) / lst.remove(lst[0]) / lst[0] = NewFlag
changed(contents, change) ==
    CASE change = "append"  -> Append(contents, NewFlag)
      [] change = "remove"  -> Tail(contents)
      [] change = "replace" -> [contents EXCEPT ![1] = NewFlag]

\* A caller changes, in place, the list one flag attribute of one family
\* refers to.
MutateFlags ==
    /\ mutations < MaxMutations
    /\ \E name \in DOMAIN families, field \in FlagFields, change \in FlagChanges :
         /\ change = "append" \/ heap[families[name][field]] # <<>>
         /\ heap' = [heap EXCEPT ![families[name][field]] = changed(@, change)]
         /\ result' = [op |-> "mutate", family |-> name, field |-> field,
                       change |-> change]
    /\ mutations' = mutations + 1
    /\ UNCHANGED <<script, pc, roles, families, index, created, hostPreferred>>

\* The families are constructed over the "free" names and their flag lists
\* changed.
FlagInit == Init /\ script = "free"

FlagNext ==
    \/ DefineRole
    \/ Construct
    \/ MutateFlags

FlagSpec == FlagInit /\ [][FlagNext]_vars

----------------------------------------------------------------------------
(* Vocabulary of the properties *)

Range(f) == {f[x] : x \in DOMAIN f}

\* The command strings of a list of CompilerInfo, in order.
CommandsOf(infos) == [i \in 1..Len(infos) |-> infos[i].command]

\* The families in whose command map c is a key.
FamiliesWith(c) == {f \in DOMAIN families : c \in DOMAIN families[f].info_by_command}

\* Every command string that is a key of some family's command map.
RegisteredCommands == UNION {DOMAIN families[f].info_by_command : f \in DOMAIN families}

\* A CompilerInfo was created for command c (for role keyword k) by family f.
CreatedFor(f, c) == \E info \in index : info.family = f /\ info.command = c
CreatedInRole(f, k) == \E info \in index : info.family = f /\ info.role = k

\* The role list of family f under keyword k, empty when the key is absent.
RoleList(fams, f, k) ==
    IF k \in DOMAIN fams[f].info_by_role THEN fams[f].info_by_role[k] ELSE <<>>

SeedLoaded == script = "seed" /\ Loaded

----------------------------------------------------------------------------
(* C1 *)

\* C1 as stated: for every family F and every command c registered in F,
\* find(c) returns the very CompilerInfo that F's add created for c.
C1_FindReturnsEachFamilysOwnInfo ==
    (result.op = "find" /\ result.path \in RegisteredCommands) =>
        \A f \in FamiliesWith(result.path) :
            /\ result.status = "ok"
            /\ result.value = families[f].info_by_command[result.path]

\* C1 (amended): for every registered command c, find(c) succeeds and returns
\* a CompilerInfo whose command is c and which is the entry for c in the
\* command map of one of the families that registered c; when exactly one
\* family registered c it is that family's entry.
C1_FindReturnsARegisteredInfoForCommand ==
    (result.op = "find" /\ result.path \in RegisteredCommands) =>
        /\ result.status = "ok"
        /\ result.value.command = result.path
        /\ result.value.family \in FamiliesWith(result.path)
        /\ result.value = families[result.value.family].info_by_command[result.path]
        /\ result.value \in index
        /\ \A f \in DOMAIN families :
              FamiliesWith(result.path) = {f} =>
                  result.value = families[f].info_by_command[result.path]

\* find("cc") on the seed data has returned Cray's entry, not System's.
C1_Witness ==
    /\ SeedLoaded
    /\ result.op = "find"
    /\ result.path = s_cc
    /\ result.status = "ok"
    /\ result.value = families["Cray"].info_by_command[s_cc]
    /\ FamiliesWith(s_cc) = {"System", "Cray"}

----------------------------------------------------------------------------
(* C2 *)

\* C2: when no registered command equals the stripped input, the info find
\* returns is registered, its command is a substring of the stripped input
\* and no registered command contained in the stripped input is longer; on
\* the seed data find("gcc-4.7-x86_64") returns gcc of family GNU, role CC.
C2_ApproximateMatchIsLongest ==
    /\ (/\ result.op = "find"
        /\ basename(result.path) \notin RegisteredCommands
        /\ result.status = "ok") =>
            /\ result.value \in index
            /\ result.value = families[result.value.family].info_by_command[result.value.command]
            /\ IsSubstr(result.value.command, basename(result.path))
            /\ \A c \in RegisteredCommands :
                  IsSubstr(c, basename(result.path)) =>
                      Len(result.value.command) >= Len(c)
    /\ (SeedLoaded /\ result.op = "find" /\ result.path = p_gcc47) =>
            /\ result.status = "ok"
            /\ result.value.command = s_gcc
            /\ result.value.family = "GNU"
            /\ result.value.role = "CC"

\* find("gcc-4.7-x86_64") on the seed data, where gcc and both cc entries are
\* contained in the input, has returned the gcc entry.
C2_Witness ==
    /\ SeedLoaded
    /\ result.op = "find"
    /\ result.path = p_gcc47
    /\ result.status = "ok"
    /\ result.value.command = s_gcc
    /\ Cardinality(relevant(index, p_gcc47)) = 3

----------------------------------------------------------------------------
(* C3 *)

\* find fails exactly when no registered command is contained in the final
\* path segment of its input.
C3_FailsIffNothingContained ==
    result.op = "find" =>
        ((result.status = "KeyError") <=>
            ~ \E c \in RegisteredCommands : IsSubstr(c, basename(result.path)))

\* C3: find fails with KeyError if and only if no registered command string
\* is a substring of the final path segment of its input (find("does-not-
\* exist") fails on the seed data), and a failing find leaves every family's
\* command map and role map and the global index unchanged.
C3_FindNotFound ==
    /\ [](C3_FailsIffNothingContained)
    /\ []((SeedLoaded /\ result.op = "find" /\ result.path = p_doesNotExist)
              => result.status = "KeyError")
    /\ [][(result'.op = "find" /\ result'.status = "KeyError")
              => UNCHANGED <<families, index, created, roles>>]_vars

\* find("does-not-exist") has failed on the seed data.
C3_Witness ==
    /\ SeedLoaded
    /\ result.op = "find"
    /\ result.path = p_doesNotExist
    /\ result.status = "KeyError"

----------------------------------------------------------------------------
(* C4 *)

\* C4: add(role, c) on a family in which c is already registered fails with
\* InternalError and changes nothing: the family's command map and role map,
\* the other families, the global index and the number of CompilerInfo
\* objects are as before the call.
C4_DuplicateAddFailsWithoutEffect ==
    [][(/\ result'.op = "add"
        /\ Len(result'.commands) = 1
        /\ result'.commands[1] \in DOMAIN families[result'.family].info_by_command)
          => /\ result'.status = "InternalError"
             /\ UNCHANGED <<families, index, created>>]_vars

\* A one-command add for a command the family already holds has failed.
C4_Witness ==
    /\ result.op = "add"
    /\ Len(result.commands) = 1
    /\ result.status = "InternalError"
    /\ result.commands[1] \in DOMAIN families[result.family].info_by_command

----------------------------------------------------------------------------
(* C5 *)

\* The global index is the union of the families' command maps, each index
\* entry is its own family's entry for its command, and every CompilerInfo
\* constructed is in the index.
C5_IndexIsUnionOfCommandMaps ==
    /\ index = UNION {Range(families[f].info_by_command) : f \in DOMAIN families}
    /\ \A info \in index :
          /\ info.family \in DOMAIN families
          /\ info.command \in DOMAIN families[info.family].info_by_command
          /\ families[info.family].info_by_command[info.command] = info
    /\ Cardinality(index) = created

\* C5: after any sequence of family constructions and add calls, successful
\* or failing, the CompilerInfo objects in the global index are exactly the
\* values of the families' command maps; no step removes or alters one.
C5_GlobalIndex ==
    /\ [](C5_IndexIsUnionOfCommandMaps)
    /\ [][index \subseteq index' /\ created <= created']_vars

\* A failing add call has followed successful ones in both families.
C5_Witness ==
    /\ script = "free"
    /\ result.op = "add"
    /\ result.status = "InternalError"
    /\ Cardinality(index) >= 3
    /\ \A f \in FreeNames : f \in DOMAIN families /\ CreatedFor(f, s_cc)

----------------------------------------------------------------------------
(* C6 *)

\* What an add call does to the role lists: the list of its role keeps its
\* old entries in place and gains, at the end, entries for the leading
\* commands of the call in the order of the call (all of them when the call
\* succeeds); every other role list is as before.
C6_AddAppendsInOrder ==
    result'.op = "add" =>
        LET f   == result'.family
            k   == result'.role.keyword
            old == RoleList(families, f, k)
            new == RoleList(families', f, k)
        IN  /\ Len(new) >= Len(old)
            /\ SubSeq(new, 1, Len(old)) = old
            /\ CommandsOf(SubSeq(new, Len(old) + 1, Len(new)))
                  = SubSeq(result'.commands, 1, Len(new) - Len(old))
            /\ result'.status = "ok" => Len(new) - Len(old) = Len(result'.commands)
            /\ \A g \in DOMAIN families :
                  /\ DOMAIN families'[g].info_by_role \ {k} = DOMAIN families[g].info_by_role \ {k}
                  /\ \A j \in DOMAIN families[g].info_by_role :
                        (g # f \/ j # k) => RoleList(families', g, j) = RoleList(families, g, j)

\* C6: members(role) lists the role's commands in the order they were
\* registered, left to right within an add call and later calls after
\* earlier ones; on the seed data System.members(CXX_ROLE) is
\* [c++, cxx, CC] and Cray.members(CXX_ROLE) is [CC, c++, cxx].
C6_MembersInRegistrationOrder ==
    /\ [][C6_AddAppendsInOrder]_vars
    /\ []((result.op = "members" /\ ~result.key.isString /\ result.status = "ok")
             => result.value = RoleList(families, result.family, result.key.role.keyword))
    /\ [](SeedLoaded =>
             /\ CommandsOf(members(families["System"], RoleKey(CXX_ROLE)).value)
                   = <<s_cpp, s_cxx, s_CC>>
             /\ CommandsOf(members(families["Cray"], RoleKey(CXX_ROLE)).value)
                   = <<s_CC, s_cpp, s_cxx>>)

\* A later add call for a role has extended the list an earlier call began,
\* and members(role) has returned the two-entry list.
C6_Witness ==
    /\ script = "free"
    /\ result.op = "members"
    /\ ~result.key.isString
    /\ result.status = "ok"
    /\ CommandsOf(result.value) = <<s_gcc, s_cc>>

----------------------------------------------------------------------------
(* C7 *)

\* What one iteration of all() has yielded.
C7_AllYieldsEachFamilyOnce ==
    result.op = "all" =>
        /\ result.value[1] = hostPreferred
        /\ Len(result.value) = Cardinality(DOMAIN families)
        /\ {result.value[i] : i \in 1..Len(result.value)} = DOMAIN families
        /\ \A i \in 2..Len(result.value) : result.value[i] # hostPreferred
        /\ script = "seed" =>
              /\ Len(result.value) = 6
              /\ {result.value[i] : i \in 1..6} = SeedFamilyNames

\* C7: all() yields the host's preferred family first and then every other
\* registered family exactly once, so each of the six seeded families is
\* yielded exactly once and the preferred family never a second time;
\* iterating again yields the same preferred family first.
C7_AllFamilies ==
    /\ [](C7_AllYieldsEachFamilyOnce)
    /\ [][(result.op = "all" /\ result'.op = "all")
             => result'.value[1] = result.value[1]]_vars

\* all() on the seed data of a Cray host has yielded six families, IBM last.
C7_Witness ==
    /\ SeedLoaded
    /\ result.op = "all"
    /\ hostPreferred = "Cray"
    /\ Len(result.value) = 6
    /\ result.value[1] = "Cray"
    /\ result.value[6] = "IBM"

----------------------------------------------------------------------------
(* C8 *)

----------------------------------------------------------------------------
(* C9 *)

\* What a members call has returned.
C9_MembersResult ==
    result.op = "members" =>
        LET f == result.family
            key == result.key
        IN  /\ (result.status = "KeyError") <=> ~contains(families[f], key)
            /\ result.status \in {"ok", "KeyError"}
            /\ (result.status = "ok" /\ key.isString) =>
                  /\ result.value \in index
                  /\ result.value.command = key.str
                  /\ result.value.family = f
            /\ (result.status = "ok" /\ ~key.isString) =>
                  /\ result.value # <<>>
                  /\ Range(result.value) =
                        {info \in index : info.family = f /\ info.role = key.role.keyword}
                  /\ Cardinality(Range(result.value)) = Len(result.value)

\* C9: F.members(x) fails with KeyError exactly when F does not contain x,
\* and otherwise returns the CompilerInfo registered for command x in F, or
\* the non-empty list of the CompilerInfo registered for role x in F; a
\* failing members call changes no registry state.
C9_Members ==
    /\ [](C9_MembersResult)
    /\ [][(result'.op = "members" /\ result'.status = "KeyError")
             => UNCHANGED <<families, index, created, roles>>]_vars

\* members has failed for a command that another family holds.
C9_Witness ==
    /\ result.op = "members"
    /\ result.key.isString
    /\ result.status = "KeyError"
    /\ \E g \in DOMAIN families : contains(families[g], result.key)

----------------------------------------------------------------------------
(* C10 *)

\* C10: tau_required() yields exactly the roles CC, CXX and FC, each once,
\* and never UPC, whatever has been registered and however often it is
\* called.
C10_TauRequired ==
    result.op = "tau_required" =>
        /\ Len(result.value) = 3
        /\ {result.value[i] : i \in 1..Len(result.value)} = {CC_ROLE, CXX_ROLE, FC_ROLE}
        /\ \A i \in 1..Len(result.value) : result.value[i] # UPC_ROLE

\* tau_required() has yielded FC first, with commands registered.
C10_Witness ==
    /\ result.op = "tau_required"
    /\ index # {}
    /\ Len(result.value) = 3
    /\ result.value[1] = FC_ROLE

----------------------------------------------------------------------------
(* C11 *)

\* C11: family_names() returns a list in ascending alphabetical order that
\* holds exactly the names of the registered families, each once; on the
\* seed data it is Cray, GNU, IBM, Intel, PGI, System whichever family the
\* host prefers.
C11_FamilyNames ==
    result.op = "family_names" =>
        /\ Len(result.value) = Cardinality(DOMAIN families)
        /\ {result.value[i] : i \in 1..Len(result.value)} = DOMAIN families
        /\ \A i \in 1..(Len(result.value) - 1) :
              str_less(result.value[i], result.value[i + 1])
        /\ script = "seed" =>
              result.value = <<"Cray", "GNU", "IBM", "Intel", "PGI", "System">>

\* family_names() has returned the six names on a host that prefers System,
\* which all() yields first and the list holds last.
C11_Witness ==
    /\ SeedLoaded
    /\ hostPreferred = "System"
    /\ result.op = "family_names"
    /\ Len(result.value) = 6
    /\ result.value[1] = "Cray"
    /\ result.value[6] = "System"

----------------------------------------------------------------------------
(* C13 *)

\* Some command of the list is already in the family's command map, or
\* occurs twice in the list.
HasDuplicate(fams, f, commands) ==
    \/ \E i \in 1..Len(commands) : commands[i] \in DOMAIN fams[f].info_by_command
    \/ \E i, j \in 1..Len(commands) : i # j /\ commands[i] = commands[j]

\* C13: an add call whose command list holds a command that is already
\* registered in the family, or holds a command twice, fails and registers
\* none of its commands: the families' command and role maps, the global
\* index and the number of CompilerInfo objects are as before the call.
C13_FailingAddIsAllOrNothing ==
    [][(result'.op = "add" /\ HasDuplicate(families, result'.family, result'.commands))
          => /\ result'.status = "InternalError"
             /\ UNCHANGED <<families, index, created>>]_vars

----------------------------------------------------------------------------
(* C14 *)

\* The places <<k, i>> of family fam's role lists that hold command c.
PlacesOf(fam, c) ==
    UNION {{<<k, i>> : i \in {j \in 1..Len(fam.info_by_role[k]) :
                                   fam.info_by_role[k][j].command = c}} :
           k \in DOMAIN fam.info_by_role}

\* C14: within every family the command map and the role map describe the
\* same membership: every command key is in exactly one role list, exactly
\* once; every role list entry is the value the command map holds under its
\* command; each stored CompilerInfo has this family as family and the
\* list's role as role; no role list is empty.
C14_MapsAgree ==
    \A f \in DOMAIN families :
        LET fam == families[f]
        IN  /\ \A c \in DOMAIN fam.info_by_command :
                  /\ Cardinality(PlacesOf(fam, c)) = 1
                  /\ fam.info_by_command[c].command = c
                  /\ fam.info_by_command[c].family = f
                  /\ fam.info_by_command[c].role \in DOMAIN fam.info_by_role
            /\ \A k \in DOMAIN fam.info_by_role :
                  /\ fam.info_by_role[k] # <<>>
                  /\ \A i \in 1..Len(fam.info_by_role[k]) :
                        LET info == fam.info_by_role[k][i]
                        IN  /\ info.command \in DOMAIN fam.info_by_command
                            /\ fam.info_by_command[info.command] = info
                            /\ info.family = f
                            /\ info.role = k

\* A two-command add call has failed at its second command after
\* registering its first, in a family that now holds commands in two roles.
C14_Witness ==
    /\ script = "free"
    /\ result.op = "add"
    /\ result.status = "InternalError"
    /\ Len(result.commands) = 2
    /\ Cardinality(DOMAIN families[result.family].info_by_role) = 2
    /\ result.commands[1] \in DOMAIN families[result.family].info_by_command
    /\ families[result.family].info_by_command[result.commands[1]].role = result.role.keyword
    /\ families[result.family].info_by_command[result.commands[2]].role # result.role.keyword

----------------------------------------------------------------------------
(* C15 *)

\* What find(c) returns under each iteration order of the global index.
FindOutcomes(c) == {find(ord, c) : ord \in IterOrders(relevant(index, c))}

\* C15: on the seed data, for every seeded command c, find(c) returns under
\* every iteration order of the global index an info whose command is c and
\* whose role is the same (cc is CC, CC is CXX), and whose family is the
\* same too when one family alone registered c (icc is Intel, CC).
C15_ExactMatchIndependentOfOrder ==
    (SeedLoaded /\ result.op = "find" /\ result.path \in SeedCommands) =>
        /\ result.status = "ok"
        /\ \A r \in FindOutcomes(result.path) :
              /\ r.status = "ok"
              /\ r.value.command = result.path
              /\ r.value.role = result.value.role
              /\ Cardinality(FamiliesWith(result.path)) = 1 =>
                    r.value.family = result.value.family
        /\ result.path = s_cc  => result.value.role = "CC"
        /\ result.path = s_CC  => result.value.role = "CXX"
        /\ result.path = s_icc => result.value.family = "Intel" /\ result.value.role = "CC"

\* find("icc") has returned on the seed data, where the index can be
\* iterated with either cc entry before the icc entry.
C15_Witness ==
    /\ SeedLoaded
    /\ result.op = "find"
    /\ result.path = s_icc
    /\ result.status = "ok"
    /\ result.value.family = "Intel"
    /\ Cardinality(relevant(index, s_icc)) = 3
    /\ Cardinality(FindOutcomes(s_cc)) = 2

----------------------------------------------------------------------------
(* C12 *)

\* A change of a flag list of one family leaves the contents of the flag
\* lists of every other family, and of the constructor's default lists, as
\* they were.
C12_ChangeStaysInFamily ==
    result'.op = "mutate" =>
        /\ \A g \in DOMAIN families \ {result'.family} :
              \A field \in FlagFields :
                  flags(heap', families'[g], field) = flags(heap, families[g], field)
        /\ \A field \in FlagFields : heap'[DefaultRef(field)] = heap[DefaultRef(field)]
        /\ \A field \in FlagFields \ {result'.field} :
              flags(heap', families'[result'.family], field)
                  = flags(heap, families[result'.family], field)

\* A family just constructed has the default flags in every list for which
\* the call gave no argument, and the elements of the argument otherwise.
C12_NewFamilyGetsDefaults ==
    result.op = "family" =>
        \A field \in FlagFields :
            flags(heap, families[result.name], field) =
                IF field = "show_wrapper_flags" /\ result.show_wrapper_flags.given
                THEN result.show_wrapper_flags.value
                ELSE DefaultFlags[field]

\* C12: each family owns its own copies of the five flag lists: appending
\* to, removing from or replacing an element of a flag list of one family
\* leaves the flag lists of every other family and the constructor defaults
\* unchanged, and a family constructed afterwards still gets version flags
\* [--version], include [-I], library path [-L], link [-l] and show-wrapper
\* [] where it gives no argument.
C12_FlagListsAreOwnCopies ==
    /\ [][C12_ChangeStaysInFamily]_vars
    /\ [](C12_NewFamilyGetsDefaults)
    /\ [](\A field \in FlagFields : heap[DefaultRef(field)] = DefaultFlags[field])

\* A family has been constructed with omitted arguments after flag lists of
\* the other family, constructed before it, were changed.
C12_Witness ==
    /\ result.op = "family"
    /\ result.name = "GNU"
    /\ mutations = MaxMutations
    /\ "Cray" \in DOMAIN families
    /\ flags(heap, families["Cray"], "version_flags") # DefaultFlags["version_flags"]
    /\ flags(heap, families["GNU"], "version_flags") = <<"--version">>
    /\ flags(heap, families["GNU"], "include_path_flags") = <<"-I">>
    /\ flags(heap, families["GNU"], "library_path_flags") = <<"-L">>
    /\ flags(heap, families["GNU"], "link_library_flags") = <<"-l">>
    /\ flags(heap, families["GNU"], "show_wrapper_flags") = <<>>
============================================================================
